---- MODULE Spec2Model ----
(***************************************************************************)
(* Task-management HTTP backend (express + mongoose).                      *)
(*                                                                         *)
(* The model covers the process bootstrap of server.js, the request        *)
(* validation middleware, the Task schema and the six task routes of       *)
(* src/routes/taskRoutes.js.  Every route is modelled for a caller that    *)
(* has passed authenticateToken, so req.user.userId is the caller.         *)
(*                                                                         *)
(* A stored task is identified by a well-formed ObjectId; well-formed ids  *)
(* are the positive integers, handed out in creation order, and 0 stands   *)
(* for an id string that is not a well-formed ObjectId.  createdAt grows   *)
(* with the id.                                                            *)
(***************************************************************************)
EXTENDS Integers, Sequences, FiniteSets, TLC

\* ---------------------------------------------------------------- bounds
\* Number of tasks ever created in a run of Spec.
MaxTasks == 1
\* Number of tasks ever created in a run of SpecList.
MaxListed == 2
\* Largest page number requested from GET /api/tasks.
MaxPage == 2
\* Largest limit requested from GET /api/tasks.
MaxLimit == 2

\* ------------------------------------------------------- program constants
\* page = 1 when req.query.page is omitted
DefaultPage == 1
\* limit = 10 when req.query.limit is omitted
DefaultLimit == 10

\* A JavaScript undefined (a key that is not there).
Absent == "undefined"
\* A BSON null.
Null == "null"
\* No validation error.
NoError == ""

\* taskSchema.status.enum
StatusEnum == {"Pending", "In Progress", "Completed"}
\* taskSchema.status.default
DefaultStatus == "Pending"
\* The message of the title's required rule (schema and Joi).
TitleRequired == "Title is required"
TitleEmpty == "\"title\" is not allowed to be empty"
DescriptionEmpty == "\"description\" is not allowed to be empty"
StatusInvalid == "\"status\" must be one of [Pending, In Progress, Completed]"
DocValidationFailed == "Task validation failed: title: Title is required"
UpdateValidationFailed == "Validation failed: title: Title is required"
CastError == "Cast to ObjectId failed"
DocumentNotFound == "No document found for query"
MongooseNotDefined == "mongoose is not defined"
FilterBeforeInit == "Cannot access 'filter' before initialization"
NegativeSkip == "Skip value must be non-negative"
InvalidIdFormat == "Invalid task ID format"
TaskNotFound == "Task not found"
NoFileUploaded == "No file uploaded"

\* ------------------------------------------------------------ input sets
Users == {"alice", "bob"}
\* The callers of Spec.
Callers == {"alice"}
\* Filenames generated by the upload middleware.
Files == {"f1.png"}

\* req.body of POST /api/tasks and PUT /api/tasks/:id
Bodies ==
    {b \in [title : {Absent, "", " ", "a"},
            description : {Absent, "d"},
            status : {Absent, "Completed", "Bogus"}] :
        b.title = "a" \/ b.description = Absent}

\* The bodies sent in SpecList.
ListBodies ==
    [title : {"a"}, description : {Absent}, status : {Absent, "Completed"}]

NoBody == [title |-> Absent, description |-> Absent, status |-> Absent]

\* An optional number of the query string: <<>> when omitted, <<n>> otherwise.
OptNum(max) == {<<>>} \cup {<<n>> : n \in 0..max}

\* req.query of GET /api/tasks
Queries ==
    [search : {Absent, "a"},
     page : OptNum(MaxPage),
     limit : OptNum(MaxLimit),
     sort : {Absent, "-createdAt"},
     status : {Absent, "Completed"}]

\* The queries sent in Spec.
BasicQueries ==
    {q \in Queries : q.page = <<>> /\ q.limit = <<>> /\ q.sort = Absent}

NoQuery ==
    [search |-> Absent, page |-> <<>>, limit |-> <<>>, sort |-> Absent,
     status |-> Absent]

VARIABLES
    listening,       \* app.listen has been called
    exited,          \* process.exit(1) has been called
    db,              \* "idle", "connecting", "connected" or "failed"
    nullsUndefined,  \* the ORM build writes an undefined update key as null
    tasks,           \* the tasks collection: id -> document
    nextId,          \* the next ObjectId
    saving,          \* uploads between their findById and their save
    last             \* the last request answered and its response

vars == <<listening, exited, db, nullsUndefined, tasks, nextId, saving, last>>

\* ------------------------------------------------------------- helpers
\* JavaScript truthiness of an optional string.
Truthy(s) == s # Absent /\ s # Null /\ s # ""

\* String.prototype.trim, as the schema's trim: true applies it.
RECURSIVE TrimLeft(_)
TrimLeft(s) ==
    IF Len(s) > 0 /\ SubSeq(s, 1, 1) = " "
    THEN TrimLeft(SubSeq(s, 2, Len(s)))
    ELSE s

RECURSIVE TrimRight(_)
TrimRight(s) ==
    IF Len(s) > 0 /\ SubSeq(s, Len(s), Len(s)) = " "
    THEN TrimRight(SubSeq(s, 1, Len(s) - 1))
    ELSE s

Trim(s) == IF s \in {Absent, Null} THEN s ELSE TrimRight(TrimLeft(s))

\* mongoose.Types.ObjectId.isValid / the cast of _id
IsValidObjectId(id) == id >= 1

\* The ids a request may name: 0 is malformed, the others well-formed.
IdParams(cap) == 0..cap

\* ----------------------------------------------------------- validation
\* validateTask with the title's required() left out.
validateTaskTitleOptional(body) ==
    IF body.title = "" THEN TitleEmpty
    ELSE IF body.status # Absent /\ body.status \notin StatusEnum
         THEN StatusInvalid
    ELSE NoError

\* The first Joi error of the body, NoError when it passes.
validateTask(body) ==
    IF body.title = Absent THEN TitleRequired
    ELSE IF body.title = "" THEN TitleEmpty
    ELSE IF body.description = "" THEN DescriptionEmpty
    ELSE IF body.status # Absent /\ body.status \notin StatusEnum
         THEN StatusInvalid
    ELSE NoError

\* new Task({ title, description, user }): casting, trimming and defaults.
NewTask(title, description, user) ==
    [title |-> Trim(title),
     description |-> Trim(description),
     status |-> DefaultStatus,
     user |-> user,
     image |-> Absent]

\* The schema's required rule for a string path.
RequiredOk(v) == v \notin {Absent, Null, ""}

\* The schema's enum rule: null and undefined pass.
EnumOk(v) == v \in {Absent, Null} \/ v \in StatusEnum

\* Document validation on save.
ValidateDoc(doc) ==
    IF RequiredOk(doc.title) /\ RequiredOk(doc.user) /\ EnumOk(doc.status)
    THEN NoError
    ELSE DocValidationFailed

\* ------------------------------------------------------------ responses
\* What a handler leaves behind: the status code, the error or message of
\* the JSON body, whether the route handler (the last callback) ran, whether
\* it awaited the database, and the collection afterwards.
Reply(code, error, ran, usedDb, store) ==
    [code |-> code, error |-> error, ran |-> ran, usedDb |-> usedDb,
     store |-> store]

\* The collection with document doc stored under id.
Put(store, id, doc) ==
    [i \in DOMAIN store \cup {id} |-> IF i = id THEN doc ELSE store[i]]

\* The collection without the document under id.
Remove(store, id) == [i \in DOMAIN store \ {id} |-> store[i]]

\* -------------------------------------------------------- POST /api/tasks
\* validateTask, then new Task({ title, description, user }).save().
CreateTask(store, id, user, body) ==
    LET v == validateTask(body)
        doc == NewTask(body.title, body.description, user)
    IN  IF v # NoError THEN Reply(400, v, FALSE, FALSE, store)
        ELSE IF ValidateDoc(doc) # NoError
             THEN Reply(500, ValidateDoc(doc), TRUE, FALSE, store)
        ELSE Reply(201, NoError, TRUE, TRUE, Put(store, id, doc))

\* ----------------------------------------------------- PUT /api/tasks/:id
\* One key of the update { title, description, status }: a key whose value
\* is undefined is dropped from the update by an ORM build that strips
\* undefined keys and written as null by one that does not.
SetKey(old, new) ==
    IF new = Absent THEN (IF nullsUndefined THEN Null ELSE old) ELSE Trim(new)

\* Task.findByIdAndUpdate(id, { title, description, status },
\*                        { new: true, runValidators: true })
findByIdAndUpdate(store, id, body) ==
    IF ~IsValidObjectId(id) THEN Reply(500, CastError, TRUE, FALSE, store)
    ELSE IF ~RequiredOk(Trim(body.title)) \/ ~EnumOk(body.status)
         THEN Reply(500, UpdateValidationFailed, TRUE, FALSE, store)
    ELSE IF id \notin DOMAIN store
         THEN Reply(404, TaskNotFound, TRUE, TRUE, store)
    ELSE Reply(200, NoError, TRUE, TRUE,
               Put(store, id,
                   [store[id] EXCEPT
                       !.title = SetKey(@, body.title),
                       !.description = SetKey(@, body.description),
                       !.status = SetKey(@, body.status)]))

\* validateTask, then the route handler.
UpdateTask(store, id, body) ==
    LET v == validateTask(body)
    IN  IF v # NoError THEN Reply(400, v, FALSE, FALSE, store)
        ELSE findByIdAndUpdate(store, id, body)

\* -------------------------------------------------- DELETE /api/tasks/:id
\* Task.findByIdAndDelete(id) and the handler around it.
DeleteTask(store, id) ==
    IF ~IsValidObjectId(id) THEN Reply(500, CastError, TRUE, FALSE, store)
    ELSE IF id \notin DOMAIN store
         THEN Reply(404, TaskNotFound, TRUE, TRUE, store)
    ELSE Reply(200, NoError, TRUE, TRUE, Remove(store, id))

\* ----------------------------------------------------- GET /api/tasks/:id
\* Whether the routes module binds the name mongoose (it requires express,
\* the Task model, and three middlewares, and nothing else).
MongooseInScope == FALSE

GetTask(store, id) ==
    IF ~MongooseInScope
    THEN Reply(500, MongooseNotDefined, TRUE, FALSE, store)
    ELSE IF ~IsValidObjectId(id)
         THEN Reply(400, InvalidIdFormat, TRUE, FALSE, store)
    ELSE IF id \notin DOMAIN store
         THEN Reply(404, TaskNotFound, TRUE, TRUE, store)
    ELSE Reply(200, NoError, TRUE, TRUE, store)

\* ---------------------------------------------- POST /api/tasks/:id/upload
\* The handler up to and including its await of Task.findById: a code of 0
\* is a task found, with the handler suspended before task.save().
UploadBegin(store, id, file) ==
    IF file = Absent THEN Reply(400, NoFileUploaded, TRUE, FALSE, store)
    ELSE IF ~IsValidObjectId(id)
         THEN Reply(500, CastError, TRUE, FALSE, store)
    ELSE IF id \notin DOMAIN store
         THEN Reply(404, TaskNotFound, TRUE, TRUE, store)
    ELSE Reply(0, NoError, TRUE, TRUE, store)

\* task.image = `/uploads/${req.file.filename}`
ImagePath(file) == "/uploads/" \o file

\* task.save() writing a whole document built afresh instead of the one
\* modified path.
SaveImageWholeDoc(store, id, file) ==
    IF id \notin DOMAIN store
    THEN Reply(500, DocumentNotFound, TRUE, TRUE, store)
    ELSE Reply(200, NoError, TRUE, TRUE,
               Put(store, id,
                   [NewTask(store[id].title, Absent, store[id].user)
                       EXCEPT !.image = ImagePath(file)]))

\* task.save() as an upsert: a document that is gone is inserted again.
SaveImageUpsert(store, id, file) ==
    IF id \notin DOMAIN store
    THEN Reply(200, NoError, TRUE, TRUE,
               Put(store, id,
                   [NewTask("a", Absent, "alice")
                       EXCEPT !.image = ImagePath(file)]))
    ELSE Reply(200, NoError, TRUE, TRUE,
               Put(store, id, [store[id] EXCEPT !.image = ImagePath(file)]))

\* task.save() of a loaded document whose only modified path is image: an
\* update of that path on the stored document, which fails when the
\* document is no longer stored.
SaveImage(store, id, file) ==
    IF id \notin DOMAIN store
    THEN Reply(500, DocumentNotFound, TRUE, TRUE, store)
    ELSE Reply(200, NoError, TRUE, TRUE,
               Put(store, id, [store[id] EXCEPT !.image = ImagePath(file)]))

\* --------------------------------------------------------- GET /api/tasks
\* The ids of S in ascending order of createdAt.
RECURSIVE Ascending(_)
Ascending(S) ==
    IF S = {} THEN <<>>
    ELSE LET m == CHOOSE x \in S : \A y \in S : x <= y
         IN  <<m>> \o Ascending(S \ {m})

\* The ids of S in descending order of createdAt.
RECURSIVE Descending(_)
Descending(S) ==
    IF S = {} THEN <<>>
    ELSE LET m == CHOOSE x \in S : \A y \in S : x >= y
         IN  <<m>> \o Descending(S \ {m})

\* .sort(sort), with sort = 'createdAt' when omitted.
SortBy(S, sort) == IF sort = "-createdAt" THEN Descending(S) ELSE Ascending(S)

\* The filter without its user key.
MatchingAnyUser(store, user, status) ==
    {id \in DOMAIN store : Truthy(status) => store[id].status = status}

\* The stored tasks that match filter = { user } or { user, status }.
Matching(store, user, status) ==
    {id \in DOMAIN store :
        /\ store[id].user = user
        /\ Truthy(status) => store[id].status = status}

\* A query number, or its default when omitted.
OrDefault(n, default) == IF n = <<>> THEN default ELSE n[1]

\* .skip(skip).limit(limit) on the sorted ids; a limit of 0 is no limit.
PageOf(ids, skip, limit) ==
    SubSeq(ids, skip + 1,
           IF limit = 0 \/ skip + limit > Len(ids) THEN Len(ids)
           ELSE skip + limit)

\* Math.floor in place of Math.ceil.
FloorDiv(total, limit) ==
    IF limit = 0 THEN <<>> ELSE <<total \div limit>>

\* Math.ceil(total / limit) as res.json writes it: Infinity and NaN, the
\* quotients by 0, are written as null (<<>>); <<n>> is the number n.
CeilDiv(total, limit) ==
    IF limit = 0 THEN <<>> ELSE <<-((-total) \div limit)>>

\* The list handler.  A truthy search assigns to filter above its const
\* declaration, which throws; otherwise find, countDocuments and the reply.
ListTasks(store, user, q) ==
    LET page == OrDefault(q.page, DefaultPage)
        limit == OrDefault(q.limit, DefaultLimit)
        found == Matching(store, user, q.status)
        skip == (page - 1) * limit
        failure(error, usedDb) ==
            [code |-> 500, error |-> error, ran |-> TRUE, usedDb |-> usedDb,
             store |-> store, tasks |-> <<>>, currentPage |-> page,
             totalPages |-> <<>>, totalItems |-> 0]
    IN  IF Truthy(q.search) THEN failure(FilterBeforeInit, FALSE)
        ELSE IF skip < 0 THEN failure(NegativeSkip, TRUE)
        ELSE [code |-> 200, error |-> NoError, ran |-> TRUE, usedDb |-> TRUE,
              store |-> store,
              tasks |-> PageOf(SortBy(found, q.sort), skip, limit),
              currentPage |-> page,
              totalPages |-> CeilDiv(Cardinality(found), limit),
              totalItems |-> Cardinality(found)]

\* ---------------------------------------------------------------- state
NoRequest ==
    [op |-> "none", caller |-> Absent, id |-> 0, body |-> NoBody,
     file |-> Absent, code |-> 0, error |-> NoError, ran |-> FALSE]

Init ==
    /\ listening = FALSE
    /\ exited = FALSE
    /\ db = "idle"
    /\ nullsUndefined \in BOOLEAN
    /\ tasks = <<>>
    /\ nextId = 1
    /\ saving = {}
    /\ last = NoRequest

\* ------------------------------------------------------------ bootstrap
\* app.listen(PORT, ...)
Listen ==
    /\ ~listening /\ ~exited
    /\ listening' = TRUE
    /\ UNCHANGED <<exited, db, nullsUndefined, tasks, nextId, saving, last>>

\* connectDB(): mongoose.connect is started.
connectDB ==
    /\ listening /\ ~exited /\ db = "idle"
    /\ db' = "connecting"
    /\ UNCHANGED <<listening, exited, nullsUndefined, tasks, nextId, saving,
                   last>>

\* await mongoose.connect(...) resolves.
ConnectOK ==
    /\ ~exited /\ db = "connecting"
    /\ db' = "connected"
    /\ UNCHANGED <<listening, exited, nullsUndefined, tasks, nextId, saving,
                   last>>

\* await mongoose.connect(...) rejects: process.exit(1).
ConnectFail ==
    /\ ~exited /\ db = "connecting"
    /\ db' = "failed"
    /\ exited' = TRUE
    /\ UNCHANGED <<listening, nullsUndefined, tasks, nextId, saving, last>>

\* ------------------------------------------------------------- requests
\* The server takes requests once the start-up script has run; a handler
\* that awaits the database completes only on an open connection (the ORM
\* buffers the operation until then).
Serving == listening /\ ~exited /\ db \in {"connecting", "connected"}

CanAnswer(r) == Serving /\ (r.usedDb => db = "connected")

Answered(op, caller, id, body, file, r) ==
    last' = [op |-> op, caller |-> caller, id |-> id, body |-> body,
             file |-> file, code |-> r.code, error |-> r.error,
             ran |-> r.ran]

Create(user, body, cap) ==
    LET r == CreateTask(tasks, nextId, user, body)
    IN  /\ CanAnswer(r)
        /\ r.code = 201 => nextId <= cap
        /\ tasks' = r.store
        /\ nextId' = IF r.code = 201 THEN nextId + 1 ELSE nextId
        /\ Answered("create", user, IF r.code = 201 THEN nextId ELSE 0, body,
                    Absent, r)
        /\ UNCHANGED <<listening, exited, db, nullsUndefined, saving>>

List(user, q) ==
    LET r == ListTasks(tasks, user, q)
    IN  /\ CanAnswer(r)
        /\ Answered("list", user, 0, NoBody, Absent, r)
        /\ UNCHANGED <<listening, exited, db, nullsUndefined, tasks, nextId,
                       saving>>

Get(user, id) ==
    LET r == GetTask(tasks, id)
    IN  /\ CanAnswer(r)
        /\ Answered("get", user, id, NoBody, Absent, r)
        /\ UNCHANGED <<listening, exited, db, nullsUndefined, tasks, nextId,
                       saving>>

Update(user, id, body) ==
    LET r == UpdateTask(tasks, id, body)
    IN  /\ CanAnswer(r)
        /\ tasks' = r.store
        /\ Answered("update", user, id, body, Absent, r)
        /\ UNCHANGED <<listening, exited, db, nullsUndefined, nextId, saving>>

Delete(user, id) ==
    LET r == DeleteTask(tasks, id)
    IN  /\ CanAnswer(r)
        /\ tasks' = r.store
        /\ Answered("delete", user, id, NoBody, Absent, r)
        /\ UNCHANGED <<listening, exited, db, nullsUndefined, nextId, saving>>

\* The upload handler up to its response or to its await of task.save().
Upload(user, id, file) ==
    LET r == UploadBegin(tasks, id, file)
    IN  /\ CanAnswer(r)
        /\ IF r.code = 0
           THEN /\ saving' = saving \cup {[caller |-> user, id |-> id,
                                           file |-> file]}
                /\ UNCHANGED last
           ELSE /\ Answered("upload", user, id, NoBody, file, r)
                /\ UNCHANGED saving
        /\ UNCHANGED <<listening, exited, db, nullsUndefined, tasks, nextId>>

\* The rest of the upload handler: task.save() and the response.
UploadSave(u) ==
    LET r == SaveImage(tasks, u.id, u.file)
    IN  /\ u \in saving
        /\ CanAnswer(r)
        /\ tasks' = r.store
        /\ saving' = saving \ {u}
        /\ Answered("upload", u.caller, u.id, NoBody, u.file, r)
        /\ UNCHANGED <<listening, exited, db, nullsUndefined, nextId>>

\* ------------------------------------------------------- specifications
CreateReq == \E u \in Callers, b \in Bodies : Create(u, b, MaxTasks)
ListReq == \E u \in Callers, q \in BasicQueries : List(u, q)
GetReq == \E u \in Callers, id \in IdParams(MaxTasks) : Get(u, id)
UpdateReq ==
    \E u \in Callers, id \in IdParams(MaxTasks), b \in Bodies :
        Update(u, id, b)
DeleteReq == \E u \in Callers, id \in IdParams(MaxTasks) : Delete(u, id)
UploadReq ==
    \E u \in Callers, id \in IdParams(MaxTasks), f \in Files \cup {Absent} :
        Upload(u, id, f)
UploadSaveStep == \E u \in saving : UploadSave(u)

Next ==
    \/ Listen
    \/ connectDB
    \/ ConnectOK
    \/ ConnectFail
    \/ CreateReq
    \/ ListReq
    \/ GetReq
    \/ UpdateReq
    \/ DeleteReq
    \/ UploadReq
    \/ UploadSaveStep

\* Every route, one caller, the default paging.
Spec == Init /\ [][Next]_vars

CreateListed == \E u \in Users, b \in ListBodies : Create(u, b, MaxListed)
UpdateListed ==
    \E u \in Users, id \in IdParams(MaxListed), b \in ListBodies :
        Update(u, id, b)
DeleteListed == \E u \in Users, id \in IdParams(MaxListed) : Delete(u, id)
ListAny == \E u \in Users, q \in Queries : List(u, q)

NextList ==
    \/ Listen
    \/ connectDB
    \/ ConnectOK
    \/ ConnectFail
    \/ CreateListed
    \/ UpdateListed
    \/ DeleteListed
    \/ ListAny

\* Two callers and every query of GET /api/tasks.
SpecList == Init /\ [][NextList]_vars

\* ------------------------------------------------------------ properties
BeginsWith(s, prefix) ==
    Len(s) >= Len(prefix) /\ SubSeq(s, 1, Len(prefix)) = prefix

\* An integer n is the ceiling of total / limit.
IsCeiling(n, total, limit) ==
    \/ limit > 0 /\ (n - 1) * limit < total /\ total <= n * limit
    \/ limit < 0 /\ (n - 1) * limit > total /\ total >= n * limit

\* The tasks of the store that a caller's filter selects.
Selected(user, q) ==
    {id \in DOMAIN tasks :
        /\ tasks[id].user = user
        /\ (q.status # Absent => tasks[id].status = q.status)}

\* C1: GET /api/tasks/:id answers 400 to a malformed id, 404 to a
\* well-formed id that is not stored and 200 to a stored one.
C1_GetByIdStatus ==
    last.op = "get" =>
        /\ ~IsValidObjectId(last.id) => last.code = 400
        /\ (IsValidObjectId(last.id) /\ last.id \notin DOMAIN tasks)
              => last.code = 404
        /\ last.id \in DOMAIN tasks => last.code = 200

\* C2: every task that GET /api/tasks returns to a caller is owned by that
\* caller, whatever the query and whatever requests came before.
C2_ListOwnTasksOnly ==
    \A u \in Users, q \in Queries :
        LET r == ListTasks(tasks, u, q)
        IN  r.code = 200 =>
                \A i \in 1..Len(r.tasks) :
                    /\ r.tasks[i] \in DOMAIN tasks
                    /\ tasks[r.tasks[i]].user = u

\* A list was answered 200 to a caller who has a task listed while a task
\* of another user is stored.
C2_Witness ==
    /\ last.op = "list" /\ last.code = 200
    /\ \E a \in DOMAIN tasks : tasks[a].user # last.caller
    /\ \E q \in Queries : ListTasks(tasks, last.caller, q).tasks # <<>>

\* C3: GET /api/tasks answers 200 for every combination of search, page,
\* limit, sort and status, unless the database reports a failure.
C3_ListAlways200 ==
    (last.op = "list" /\ last.error # NegativeSkip) => last.code = 200

\* C4 as stated: in every 200 response of GET /api/tasks, for every page
\* and limit, totalPages is the ceiling of totalItems / limit, currentPage
\* is the requested page and totalItems counts the tasks the filter selects.
C4_PaginationAnyLimit ==
    db = "connected" =>
        \A u \in Users, q \in Queries :
            LET r == ListTasks(tasks, u, q)
            IN  r.code = 200 =>
                    /\ r.totalItems = Cardinality(Selected(u, q))
                    /\ r.currentPage = OrDefault(q.page, DefaultPage)
                    /\ r.totalPages # <<>>
                    /\ IsCeiling(r.totalPages[1], r.totalItems,
                                 OrDefault(q.limit, DefaultLimit))

\* C4 amended: the same for every page and every limit of at least 1 (10
\* when omitted).
C4_Pagination ==
    db = "connected" =>
        \A u \in Users, q \in Queries :
            LET r == ListTasks(tasks, u, q)
                limit == OrDefault(q.limit, DefaultLimit)
            IN  (r.code = 200 /\ limit >= 1) =>
                    /\ r.totalItems = Cardinality(Selected(u, q))
                    /\ r.currentPage = OrDefault(q.page, DefaultPage)
                    /\ r.totalPages # <<>>
                    /\ IsCeiling(r.totalPages[1], r.totalItems, limit)

\* A list was answered 200 while some query with limit 2 selects exactly
\* one task of the caller, so that the quotient is rounded up to one page.
C4_Witness ==
    /\ last.op = "list" /\ last.code = 200
    /\ \E q \in Queries :
          LET r == ListTasks(tasks, last.caller, q)
          IN  /\ q.limit = <<2>>
              /\ r.code = 200
              /\ r.totalItems = 1
              /\ r.totalPages = <<1>>

\* C5: a POST /api/tasks without a title is answered 400 with "Title is
\* required", the route handler does not run and no stored task changes.
C5_NoTitleRejected ==
    [][(last'.op = "create" /\ last'.body.title = Absent) =>
          /\ last'.code = 400
          /\ last'.error = TitleRequired
          /\ ~last'.ran
          /\ tasks' = tasks
          /\ nextId' = nextId]_vars

\* A create without a title was rejected while a task is stored.
C5_Witness ==
    /\ last.op = "create" /\ last.body.title = Absent
    /\ last.code = 400
    /\ DOMAIN tasks # {}

\* C6: an upload with a file for a stored task is answered 200 and leaves
\* the task's image a path under /uploads/ and its other fields, and every
\* other task, as they were; an upload without a file is answered 400 and
\* changes no task.
C6_UploadSetsImageOnly ==
    [][/\ (last'.op = "upload" /\ last'.file = Absent) =>
              (last'.code = 400 /\ tasks' = tasks)
       /\ (last'.op = "upload" /\ last'.file # Absent
              /\ last'.id \in DOMAIN tasks) =>
              /\ last'.code = 200
              /\ DOMAIN tasks' = DOMAIN tasks
              /\ BeginsWith(tasks'[last'.id].image, "/uploads/")
              /\ tasks'[last'.id].title = tasks[last'.id].title
              /\ tasks'[last'.id].description = tasks[last'.id].description
              /\ tasks'[last'.id].status = tasks[last'.id].status
              /\ tasks'[last'.id].user = tasks[last'.id].user
              /\ \A i \in DOMAIN tasks \ {last'.id} : tasks'[i] = tasks[i]]_vars

\* An upload was answered 200 for a task that has a description and a
\* status other than the default.
C6_Witness ==
    /\ last.op = "upload" /\ last.code = 200
    /\ last.id \in DOMAIN tasks
    /\ tasks[last.id].image = ImagePath(last.file)
    /\ tasks[last.id].description = "d"
    /\ tasks[last.id].status = "Completed"

\* C7: an update with a valid body, a delete or an upload with a file whose
\* id is malformed is answered 400 and leaves every stored task unchanged.
C7_MalformedIdIs400 ==
    [][(/\ last'.op \in {"update", "delete", "upload"}
        /\ ~IsValidObjectId(last'.id)
        /\ last'.op = "update" => validateTask(last'.body) = NoError
        /\ last'.op = "upload" => last'.file # Absent) =>
          (last'.code = 400 /\ tasks' = tasks)]_vars

C9_ConnectBeforeListen ==
    /\ last.op # "none" => db = "connected"
    /\ exited => ~listening

\* C10: a task that was deleted is never stored again, and an upload whose
\* save comes after the delete of its task is not answered 200.
C10_DeletedStaysDeleted ==
    [][/\ \A id \in 1..(nextId - 1) :
              id \notin DOMAIN tasks => id \notin DOMAIN tasks'
       /\ (last'.op = "upload" /\ last'.file # Absent
              /\ last'.id \in 1..(nextId - 1)
              /\ last'.id \notin DOMAIN tasks) => last'.code # 200]_vars

\* An upload found its task, the task was deleted, and the upload's save
\* then failed.
C10_Witness ==
    /\ last.op = "upload" /\ last.error = DocumentNotFound
    /\ last.code = 500
    /\ last.id \in 1..(nextId - 1)
    /\ last.id \notin DOMAIN tasks

====
